---- MODULE Spec2Model ----
(***************************************************************************)
(* list_events of the diesel admin service event store                     *)
(* (libsplinter/src/admin/service/event/store/diesel/operations/           *)
(* list_events.rs): the five queries of one transaction and the            *)
(* reconstruction of AdminServiceEvent values from their rows.             *)
(*                                                                         *)
(* A table is a set of rows when the code never depends on the order of    *)
(* its rows (the three one-to-one tables, whose join result is collected   *)
(* into a HashMap), and a sequence of rows, in retrieval order, otherwise. *)
(* An Option is a sequence of length at most one; a Result is a record     *)
(* with a field ok. A HashMap is a function; iterating over one visits its *)
(* keys in an order the model chooses freely.                              *)
(***************************************************************************)
EXTENDS Integers, Sequences, FiniteSets, TLC

VARIABLES store, isolation, pc, event_ids, snap, seen, loaded,
          events_map, built_proposed_services, built_proposed_nodes,
          vote_records, result, previous

vars == <<store, isolation, pc, event_ids, snap, seen, loaded,
          events_map, built_proposed_services, built_proposed_nodes,
          vote_records, result, previous>>

(***************************************************************************)
(* Bounds of the model.                                                    *)
(***************************************************************************)
MaxReq == 2
MaxBad == 1
MaxDecodeVotes == 1
MaxChildRows == 3
MaxRepeatRows == 2
MaxWrites == 1
MaxConcurrentRows == 1

EventIds == {1, 2}
ServiceIds == {"a", "b"}
NodeIds == {"n1", "n2"}
ArgKeys == {"k1", "k2"}
EndpointUrls == {"tcp://x", "tcp://y"}

(***************************************************************************)
(* Generic helpers.                                                        *)
(***************************************************************************)
None == <<>>
Some(x) == <<x>>
Ok(v) == [ok |-> TRUE, val |-> v]
Err == [ok |-> FALSE]

Range(s) == {s[i] : i \in 1..Len(s)}
EmptyMap == [k \in {} |-> {}]
Put(m, k, v) == [x \in (DOMAIN m) \cup {k} |-> IF x = k THEN v ELSE m[x]]
Remove(m, k) == [x \in (DOMAIN m) \ {k} |-> m[x]]
Perms(S) == {f \in [1..Cardinality(S) -> S] : \A x \in S : \E i \in DOMAIN f : f[i] = x}

RECURSIVE Concat(_)
Concat(ss) == IF ss = <<>> THEN <<>> ELSE Head(ss) \o Concat(Tail(ss))

(***************************************************************************)
(* Conversions from stored codes (crate::admin::store and the event        *)
(* module; their code is not part of list_events.rs).                      *)
(***************************************************************************)
ProposalTypeTryFrom(code) ==
    IF code \in {"Create", "UpdateRoster", "AddNode", "RemoveNode", "Destroy"}
    THEN Ok(code) ELSE Err
AuthorizationTypeTryFrom(code) == IF code \in {"Trust"} THEN Ok(code) ELSE Err
PersistenceTypeTryFrom(code) == IF code \in {"Any"} THEN Ok(code) ELSE Err
DurabilityTypeTryFrom(code) == IF code \in {"NoDurability"} THEN Ok(code) ELSE Err
RouteTypeTryFrom(code) == IF code \in {"Any"} THEN Ok(code) ELSE Err

VoteRecordTryFrom(vote) ==
    IF vote.vote \in {"Accept", "Reject"}
    THEN Ok([public_key |-> vote.public_key, vote |-> vote.vote,
             voter_node_id |-> vote.voter_node_id])
    ELSE Err

AdminServiceEventTryFrom(event_model, proposal) ==
    IF event_model.event_type \in {"ProposalSubmitted", "ProposalVote", "ProposalAccepted",
                                   "ProposalRejected", "CircuitReady", "CircuitDisbanded"}
    THEN Ok([event_id |-> event_model.id, event_type |-> event_model.event_type,
             proposal |-> proposal])
    ELSE Err

(***************************************************************************)
(* Builders (crate::admin::store): setters fill optional fields, build     *)
(* validates them.                                                         *)
(***************************************************************************)
ValidCircuitIds == {"abcDE-F0123"}

ProposedServiceBuilderNew == [service_id |-> None, service_type |-> None,
                              node_id |-> None, arguments |-> None]
ProposedServiceBuild(b) ==
    IF b.service_id = None \/ b.service_type = None \/ b.node_id = None
    THEN Err
    ELSE Ok([service_id |-> b.service_id[1], service_type |-> b.service_type[1],
             node_id |-> b.node_id[1],
             arguments |-> IF b.arguments = None THEN <<>> ELSE b.arguments[1]])

ProposedNodeBuilderNew == [node_id |-> None, endpoints |-> None]
ProposedNodeBuild(b) ==
    IF b.node_id = None \/ b.endpoints = None
    THEN Err
    ELSE Ok([node_id |-> b.node_id[1], endpoints |-> b.endpoints[1]])

ProposedCircuitBuilderNew ==
    [circuit_id |-> None, authorization_type |-> None, persistence |-> None,
     durability |-> None, routes |-> None, circuit_management_type |-> None,
     application_metadata |-> None, comments |-> None, display_name |-> None,
     roster |-> None, members |-> None]
ProposedCircuitBuild(b) ==
    IF \/ b.circuit_id = None
       \/ b.circuit_management_type = None
       \/ b.circuit_id[1] \notin ValidCircuitIds
    THEN Err
    ELSE Ok([circuit_id |-> b.circuit_id[1],
             authorization_type |->
                 IF b.authorization_type = None THEN "Trust" ELSE b.authorization_type[1],
             persistence |-> IF b.persistence = None THEN "Any" ELSE b.persistence[1],
             durability |-> IF b.durability = None THEN "NoDurability" ELSE b.durability[1],
             routes |-> IF b.routes = None THEN "Any" ELSE b.routes[1],
             circuit_management_type |-> b.circuit_management_type[1],
             application_metadata |-> b.application_metadata,
             comments |-> b.comments,
             display_name |-> b.display_name,
             roster |-> IF b.roster = None THEN <<>> ELSE b.roster[1],
             members |-> IF b.members = None THEN <<>> ELSE b.members[1]])

CircuitProposalBuilderNew ==
    [proposal_type |-> None, circuit_id |-> None, circuit_hash |-> None,
     requester |-> None, requester_node_id |-> None, circuit |-> None, votes |-> None]
CircuitProposalBuild(b) ==
    IF \/ b.proposal_type = None \/ b.circuit_id = None \/ b.circuit_hash = None
       \/ b.requester = None \/ b.requester_node_id = None \/ b.circuit = None
    THEN Err
    ELSE Ok([proposal_type |-> b.proposal_type[1], circuit_id |-> b.circuit_id[1],
             circuit_hash |-> b.circuit_hash[1], requester |-> b.requester[1],
             requester_node_id |-> b.requester_node_id[1], circuit |-> b.circuit[1],
             votes |-> IF b.votes = None THEN <<>> ELSE b.votes[1]])

(***************************************************************************)
(* Stage 1: the events and their one-to-one rows (lines 66-143).           *)
(***************************************************************************)
\* Mutant: the join without the eq_any(event_ids) filter.
LoadEventModelsUnfiltered(s, ids) ==
    {m \in s.admin_service_event \X s.admin_event_circuit_proposal
              \X s.admin_event_proposed_circuit :
        /\ m[1].id = m[2].event_id
        /\ m[1].id = m[3].event_id}

\* admin_service_event filtered by eq_any(event_ids), inner-joined with the
\* circuit proposal and the proposed circuit on the event id.
LoadEventModels(s, ids) ==
    {m \in s.admin_service_event \X s.admin_event_circuit_proposal
              \X s.admin_event_proposed_circuit :
        /\ m[1].id \in Range(ids)
        /\ m[1].id = m[2].event_id
        /\ m[1].id = m[3].event_id}

\* The closure of the map(): the builders of one joined row, or the first
\* conversion error.
DecodeEventModel(m) ==
    LET event_model == m[1]
        circuit_proposal_model == m[2]
        proposed_circuit_model == m[3]
        proposal_type == ProposalTypeTryFrom(circuit_proposal_model.proposal_type)
        authorization_type ==
            AuthorizationTypeTryFrom(proposed_circuit_model.authorization_type)
        persistence == PersistenceTypeTryFrom(proposed_circuit_model.persistence)
        durability == DurabilityTypeTryFrom(proposed_circuit_model.durability)
        routes == RouteTypeTryFrom(proposed_circuit_model.routes)
    IN  IF ~proposal_type.ok THEN Err
        ELSE IF ~authorization_type.ok THEN Err
        ELSE IF ~persistence.ok THEN Err
        ELSE IF ~durability.ok THEN Err
        ELSE IF ~routes.ok THEN Err
        ELSE LET proposal_builder ==
                     [CircuitProposalBuilderNew EXCEPT
                         !.proposal_type = Some(proposal_type.val),
                         !.circuit_id = Some(circuit_proposal_model.circuit_id),
                         !.circuit_hash = Some(circuit_proposal_model.circuit_hash),
                         !.requester = Some(circuit_proposal_model.requester),
                         !.requester_node_id =
                             Some(circuit_proposal_model.requester_node_id)]
                 proposed_circuit_builder ==
                     [ProposedCircuitBuilderNew EXCEPT
                         !.circuit_id = Some(proposed_circuit_model.circuit_id),
                         !.authorization_type = Some(authorization_type.val),
                         !.persistence = Some(persistence.val),
                         !.durability = Some(durability.val),
                         !.routes = Some(routes.val),
                         !.circuit_management_type =
                             Some(proposed_circuit_model.circuit_management_type),
                         !.application_metadata =
                             proposed_circuit_model.application_metadata,
                         !.comments = proposed_circuit_model.comments,
                         !.display_name = proposed_circuit_model.display_name]
             IN  Ok([event_model |-> event_model,
                     proposal_builder |-> proposal_builder,
                     proposed_circuit_builder |-> proposed_circuit_builder])

\* Mutant: a row that fails to decode is skipped.
CollectEventsMapSkipping(event_models) ==
    Ok([id \in {m[1].id : m \in {n \in event_models : DecodeEventModel(n).ok}} |->
           DecodeEventModel(CHOOSE m \in event_models : m[1].id = id).val])

\* Mutant: an empty join result is an error.
CollectEventsMapNotFound(event_models) ==
    IF event_models = {} \/ \E m \in event_models : ~DecodeEventModel(m).ok
    THEN Err
    ELSE Ok([id \in {m[1].id : m \in event_models} |->
                DecodeEventModel(CHOOSE m \in event_models : m[1].id = id).val])

\* collect::<Result<HashMap<i64, _>, _>>(): the map keyed by event id, or the
\* error of a row that fails to decode.
CollectEventsMap(event_models) ==
    IF \E m \in event_models : ~DecodeEventModel(m).ok
    THEN Err
    ELSE Ok([id \in {m[1].id : m \in event_models} |->
                DecodeEventModel(CHOOSE m \in event_models : m[1].id = id).val])

(***************************************************************************)
(* Stage 2: proposed services and their arguments (lines 147-216).         *)
(***************************************************************************)
\* Mutant: an inner join, which drops a service without arguments.
LoadServiceRowsInnerJoin(s, ids) ==
    LET services == SelectSeq(s.admin_event_proposed_service,
                              LAMBDA r : r.event_id \in Range(ids))
        ArgsOf(r) == SelectSeq(s.admin_event_proposed_service_argument,
                               LAMBDA a : a.event_id = r.event_id
                                          /\ a.service_id = r.service_id)
        RowsOf(r) == [i \in 1..Len(ArgsOf(r)) |-> <<r, Some(ArgsOf(r)[i])>>]
    IN  Concat([i \in 1..Len(services) |-> RowsOf(services[i])])

\* Mutant: the join on service_id alone.
LoadServiceRowsJoinOnServiceId(s, ids) ==
    LET services == SelectSeq(s.admin_event_proposed_service,
                              LAMBDA r : r.event_id \in Range(ids))
        ArgsOf(r) == SelectSeq(s.admin_event_proposed_service_argument,
                               LAMBDA a : a.service_id = r.service_id)
        RowsOf(r) == IF ArgsOf(r) = <<>>
                     THEN << <<r, None>> >>
                     ELSE [i \in 1..Len(ArgsOf(r)) |-> <<r, Some(ArgsOf(r)[i])>>]
    IN  Concat([i \in 1..Len(services) |-> RowsOf(services[i])])

\* admin_event_proposed_service filtered by eq_any(event_ids), left-joined with
\* the arguments on (event_id, service_id): one row per matching argument, one
\* row with no argument for a service that has none.
LoadServiceRows(s, ids) ==
    LET services == SelectSeq(s.admin_event_proposed_service,
                              LAMBDA r : r.event_id \in Range(ids))
        ArgsOf(r) == SelectSeq(s.admin_event_proposed_service_argument,
                               LAMBDA a : a.event_id = r.event_id
                                          /\ a.service_id = r.service_id)
        RowsOf(r) == IF ArgsOf(r) = <<>>
                     THEN << <<r, None>> >>
                     ELSE [i \in 1..Len(ArgsOf(r)) |-> <<r, Some(ArgsOf(r)[i])>>]
    IN  Concat([i \in 1..Len(services) |-> RowsOf(services[i])])

\* Mutant: a later argument replaces the arguments gathered so far.
ServiceRowStepOverwrite(acc, row) ==
    LET proposed_service == row[1]
        opt_arg == row[2]
        key == <<proposed_service.event_id, proposed_service.service_id>>
        arguments_map ==
            IF opt_arg # None
            THEN Put(acc.arguments_map, key,
                     << <<opt_arg[1].key, opt_arg[1].value>> >>)
            ELSE acc.arguments_map
        proposed_services ==
            IF key \in DOMAIN acc.proposed_services
            THEN acc.proposed_services
            ELSE Put(acc.proposed_services, key,
                     [ProposedServiceBuilderNew EXCEPT
                         !.service_id = Some(proposed_service.service_id),
                         !.service_type = Some(proposed_service.service_type),
                         !.node_id = Some(proposed_service.node_id)])
    IN  [arguments_map |-> arguments_map, proposed_services |-> proposed_services]

\* The body of the for loop over the joined rows (lines 172-199).
ServiceRowStep(acc, row) ==
    LET proposed_service == row[1]
        opt_arg == row[2]
        key == <<proposed_service.event_id, proposed_service.service_id>>
        arguments_map ==
            IF opt_arg # None
            THEN IF key \in DOMAIN acc.arguments_map
                 THEN [acc.arguments_map EXCEPT
                          ![key] = Append(@, <<opt_arg[1].key, opt_arg[1].value>>)]
                 ELSE Put(acc.arguments_map, key,
                          << <<opt_arg[1].key, opt_arg[1].value>> >>)
            ELSE acc.arguments_map
        proposed_services ==
            IF key \in DOMAIN acc.proposed_services
            THEN acc.proposed_services
            ELSE Put(acc.proposed_services, key,
                     [ProposedServiceBuilderNew EXCEPT
                         !.service_id = Some(proposed_service.service_id),
                         !.service_type = Some(proposed_service.service_type),
                         !.node_id = Some(proposed_service.node_id)])
    IN  [arguments_map |-> arguments_map, proposed_services |-> proposed_services]

RECURSIVE FoldServiceRows(_, _)
FoldServiceRows(acc, rows) ==
    IF rows = <<>> THEN acc
    ELSE FoldServiceRows(ServiceRowStep(acc, Head(rows)), Tail(rows))

\* One iteration of the loop over proposed_services (lines 203-215): built is
\* a Result holding built_proposed_services.
BuildServiceStep(built, key, proposed_services, arguments_map) ==
    IF ~built.ok THEN built
    ELSE LET event_id == key[1]
             builder == IF key \in DOMAIN arguments_map
                        THEN [proposed_services[key] EXCEPT
                                 !.arguments = Some(arguments_map[key])]
                        ELSE proposed_services[key]
             proposed_service == ProposedServiceBuild(builder)
         IN  IF ~proposed_service.ok THEN Err
             ELSE IF event_id \in DOMAIN built.val
             THEN Ok([built.val EXCEPT ![event_id] = Append(@, proposed_service.val)])
             ELSE Ok(Put(built.val, event_id, <<proposed_service.val>>))

\* The loop over proposed_services.into_iter(), visiting the keys in order.
RECURSIVE BuildProposedServices(_, _, _, _)
BuildProposedServices(built, order, proposed_services, arguments_map) ==
    IF order = <<>> THEN built
    ELSE BuildProposedServices(
             BuildServiceStep(built, Head(order), proposed_services, arguments_map),
             Tail(order), proposed_services, arguments_map)

(***************************************************************************)
(* Stage 3: proposed nodes and their endpoints (lines 218-271).            *)
(***************************************************************************)
\* admin_event_proposed_node filtered by eq_any(event_ids), inner-joined with
\* the endpoints on (node_id, event_id); the node columns and the endpoint.
LoadNodeRows(s, ids) ==
    LET nodes == SelectSeq(s.admin_event_proposed_node,
                           LAMBDA r : r.event_id \in Range(ids))
        EndpointsOf(r) == SelectSeq(s.admin_event_proposed_node_endpoint,
                                    LAMBDA p : p.node_id = r.node_id
                                               /\ p.event_id = r.event_id)
        RowsOf(r) == [i \in 1..Len(EndpointsOf(r)) |-> <<r, EndpointsOf(r)[i].endpoint>>]
    IN  Concat([i \in 1..Len(nodes) |-> RowsOf(nodes[i])])

\* Mutant: a later endpoint replaces the endpoints gathered so far.
NodeRowStepReplace(proposed_nodes, row) ==
    LET node == row[1]
        endpoint == row[2]
        key == <<node.event_id, node.node_id>>
    IN  Put(proposed_nodes, key,
            [ProposedNodeBuilderNew EXCEPT
                !.node_id = Some(node.node_id),
                !.endpoints = Some(<<endpoint>>)])

\* The body of the for loop over the joined rows (lines 237-253).
NodeRowStep(proposed_nodes, row) ==
    LET node == row[1]
        endpoint == row[2]
        key == <<node.event_id, node.node_id>>
    IN  IF key \in DOMAIN proposed_nodes
        THEN LET proposed_node == proposed_nodes[key]
                 removed == Remove(proposed_nodes, key)
             IN  IF proposed_node.endpoints # None
                 THEN Put(removed, key,
                          [proposed_node EXCEPT
                              !.endpoints = Some(Append(proposed_node.endpoints[1], endpoint))])
                 ELSE Put(removed, key,
                          [proposed_node EXCEPT !.endpoints = Some(<<endpoint>>)])
        ELSE Put(proposed_nodes, key,
                 [ProposedNodeBuilderNew EXCEPT
                     !.node_id = Some(node.node_id),
                     !.endpoints = Some(<<endpoint>>)])

RECURSIVE FoldNodeRows(_, _)
FoldNodeRows(proposed_nodes, rows) ==
    IF rows = <<>> THEN proposed_nodes
    ELSE FoldNodeRows(NodeRowStep(proposed_nodes, Head(rows)), Tail(rows))

\* One iteration of the loop over proposed_nodes (lines 256-270).
BuildNodeStep(built, key, proposed_nodes) ==
    IF ~built.ok THEN built
    ELSE LET event_id == key[1]
             node == ProposedNodeBuild(proposed_nodes[key])
         IN  IF ~node.ok THEN Err
             ELSE IF event_id \in DOMAIN built.val
             THEN Ok([built.val EXCEPT ![event_id] = Append(@, node.val)])
             ELSE Ok(Put(built.val, event_id, <<node.val>>))

\* The loop over proposed_nodes.into_iter(), visiting the keys in order.
RECURSIVE BuildProposedNodes(_, _, _)
BuildProposedNodes(built, order, proposed_nodes) ==
    IF order = <<>> THEN built
    ELSE BuildProposedNodes(BuildNodeStep(built, Head(order), proposed_nodes),
                            Tail(order), proposed_nodes)

(***************************************************************************)
(* Stage 4: vote records (lines 274-292).                                  *)
(***************************************************************************)
LoadVotes(s, ids) ==
    SelectSeq(s.admin_event_vote_record, LAMBDA v : v.event_id \in Range(ids))

\* The body of the for loop over the vote rows (lines 280-291): votes is a
\* Result holding vote_records.
VoteStep(votes, vote) ==
    IF ~votes.ok THEN votes
    ELSE LET record == VoteRecordTryFrom(vote)
         IN  IF ~record.ok THEN Err
             ELSE IF vote.event_id \in DOMAIN votes.val
             THEN Ok([votes.val EXCEPT ![vote.event_id] = Append(@, record.val)])
             ELSE Ok(Put(votes.val, vote.event_id, <<record.val>>))

RECURSIVE CollectVotes(_, _)
CollectVotes(votes, rows) ==
    IF rows = <<>> THEN votes
    ELSE CollectVotes(VoteStep(votes, Head(rows)), Tail(rows))

(***************************************************************************)
(* Stage 5: assembly and ordering (lines 294-320).                         *)
(***************************************************************************)
\* One iteration of the loop over events_map (lines 298-315): events is a
\* Result holding the events pushed so far.
AssembleStep(events, event_id, emap, services, nodes, votes) ==
    IF ~events.ok THEN events
    ELSE LET entry == emap[event_id]
             with_roster == IF event_id \in DOMAIN services
                            THEN [entry.proposed_circuit_builder EXCEPT
                                     !.roster = Some(services[event_id])]
                            ELSE entry.proposed_circuit_builder
             with_members == IF event_id \in DOMAIN nodes
                             THEN [with_roster EXCEPT !.members = Some(nodes[event_id])]
                             ELSE with_roster
             with_votes == IF event_id \in DOMAIN votes
                           THEN [entry.proposal_builder EXCEPT
                                    !.votes = Some(votes[event_id])]
                           ELSE entry.proposal_builder
             circuit == ProposedCircuitBuild(with_members)
         IN  IF ~circuit.ok THEN Err
             ELSE LET proposal == CircuitProposalBuild(
                                      [with_votes EXCEPT !.circuit = Some(circuit.val)])
                  IN  IF ~proposal.ok THEN Err
                      ELSE LET event == AdminServiceEventTryFrom(entry.event_model,
                                                                 proposal.val)
                           IN  IF ~event.ok THEN Err
                               ELSE Ok(Append(events.val, event.val))

\* The loop over events_map, visiting the keys in order.
RECURSIVE AssembleEvents(_, _, _, _, _, _)
AssembleEvents(events, order, emap, services, nodes, votes) ==
    IF order = <<>> THEN events
    ELSE AssembleEvents(AssembleStep(events, Head(order), emap, services, nodes, votes),
                        Tail(order), emap, services, nodes, votes)

\* Mutant: the comparison of the sort reversed.
RECURSIVE InsertByKeyDescending(_, _)
InsertByKeyDescending(sorted, e) ==
    IF sorted = <<>> THEN <<e>>
    ELSE IF sorted[Len(sorted)].event_id >= e.event_id THEN Append(sorted, e)
    ELSE Append(InsertByKeyDescending(SubSeq(sorted, 1, Len(sorted) - 1), e),
                sorted[Len(sorted)])

\* events.sort_by_key(|a| a.event_id): a stable sort, here by insertion.
RECURSIVE InsertByKey(_, _)
InsertByKey(sorted, e) ==
    IF sorted = <<>> THEN <<e>>
    ELSE IF sorted[Len(sorted)].event_id <= e.event_id THEN Append(sorted, e)
    ELSE Append(InsertByKey(SubSeq(sorted, 1, Len(sorted) - 1), e), sorted[Len(sorted)])

RECURSIVE SortByKeyFrom(_, _)
SortByKeyFrom(sorted, events) ==
    IF events = <<>> THEN sorted
    ELSE SortByKeyFrom(InsertByKey(sorted, Head(events)), Tail(events))

\* Mutant: the events are returned in the order of the HashMap.
SortByKeyMissing(events) == events

SortByKey(events) == SortByKeyFrom(<<>>, events)

(***************************************************************************)
(* Rows of the eight tables and the stores the model starts from.          *)
(***************************************************************************)
EventRow(e, event_type) == [id |-> e, event_type |-> event_type, data |-> None]
ProposalRow(e, proposal_type) ==
    [event_id |-> e, proposal_type |-> proposal_type, circuit_id |-> "abcDE-F0123",
     circuit_hash |-> "hash", requester |-> "key", requester_node_id |-> "n1"]
CircuitRow(e, circuit_id, authorization_type, persistence, durability, routes) ==
    [event_id |-> e, circuit_id |-> circuit_id,
     authorization_type |-> authorization_type, persistence |-> persistence,
     durability |-> durability, routes |-> routes,
     circuit_management_type |-> "gameroom", application_metadata |-> None,
     comments |-> None, display_name |-> None]
\* The services of event e run on the e-th node, so that the rows of two
\* events with the same service_id differ.
ServiceRow(e, service_id) ==
    [event_id |-> e, service_id |-> service_id, service_type |-> "scabbard",
     node_id |-> IF e = 1 THEN "n1" ELSE "n2"]
ArgRow(e, service_id, key) ==
    [event_id |-> e, service_id |-> service_id, key |-> key, value |-> "v"]
NodeRow(e, node_id) == [event_id |-> e, node_id |-> node_id]
EndpointRow(e, node_id, endpoint) ==
    [event_id |-> e, node_id |-> node_id, endpoint |-> endpoint]
VoteRow(e, voter_node_id, vote) ==
    [event_id |-> e, public_key |-> "key", vote |-> vote,
     voter_node_id |-> voter_node_id]

RECURSIVE SeqOf(_)
SeqOf(S) == IF S = {} THEN <<>>
            ELSE LET x == CHOOSE y \in S : TRUE IN <<x>> \o SeqOf(S \ {x})
SeqsUpTo(S, n) == UNION {[1..k -> S] : k \in 0..n}
SubsetsUpTo(S, n) == {T \in SUBSET S : Cardinality(T) <= n}
Requests == SeqsUpTo(EventIds, MaxReq)

\* Stores that differ in which of the one-to-one rows exist and in at most
\* MaxBad unrecognized codes, with at most MaxDecodeVotes vote rows, each of a
\* stored event; a vote table holds one row at most for an (event, voter).
CorruptTargets ==
    {"event_type", "proposal_type", "authorization_type", "persistence",
     "durability", "routes", "circuit_id"} \X EventIds
Code(field, e, bad, valid) == IF <<field, e>> \in bad THEN "bogus" ELSE valid
DecodeStore(ev, pr, ci, bad, votes) ==
    [admin_service_event |->
         {EventRow(e, Code("event_type", e, bad, "ProposalSubmitted")) : e \in ev},
     admin_event_circuit_proposal |->
         {ProposalRow(e, Code("proposal_type", e, bad, "Create")) : e \in pr},
     admin_event_proposed_circuit |->
         {CircuitRow(e, Code("circuit_id", e, bad, "abcDE-F0123"),
                     Code("authorization_type", e, bad, "Trust"),
                     Code("persistence", e, bad, "Any"),
                     Code("durability", e, bad, "NoDurability"),
                     Code("routes", e, bad, "Any")) : e \in ci},
     admin_event_proposed_service |-> <<>>,
     admin_event_proposed_service_argument |-> <<>>,
     admin_event_proposed_node |-> <<>>,
     admin_event_proposed_node_endpoint |-> <<>>,
     admin_event_vote_record |-> votes]
VoteKey(v) == <<v.event_id, v.voter_node_id>>
VoteTables(n, ids, voters, votes) ==
    {q \in SeqsUpTo({VoteRow(e, voter, vote) : e \in ids, voter \in voters,
                                               vote \in votes}, n) :
        \A i, j \in 1..Len(q) : VoteKey(q[i]) = VoteKey(q[j]) => i = j}
BadVotes(q) == Cardinality({i \in 1..Len(q) : q[i].vote = "bogus"})
DecodeStoreChosen ==
    \E ev \in SUBSET EventIds :
    \E votes \in {q \in VoteTables(MaxDecodeVotes, ev, {"n1"}, {"Accept", "bogus"}) :
                      BadVotes(q) <= MaxBad} :
    \E bad \in SubsetsUpTo(CorruptTargets, MaxBad - BadVotes(votes)) :
    \E pr \in SUBSET EventIds :
    \E ci \in SUBSET EventIds :
        store = DecodeStore(ev, pr, ci, bad, votes)

\* Stores whose events are complete and well-formed or absent, with at most
\* n rows in the child tables; an argument row belongs to a stored service
\* and an endpoint row to a stored node.
ChildStore(complete, services, arguments, nodes, endpoints, votes) ==
    [admin_service_event |-> {EventRow(e, "ProposalSubmitted") : e \in complete},
     admin_event_circuit_proposal |-> {ProposalRow(e, "Create") : e \in complete},
     admin_event_proposed_circuit |->
         {CircuitRow(e, "abcDE-F0123", "Trust", "Any", "NoDurability", "Any")
             : e \in complete},
     admin_event_proposed_service |-> services,
     admin_event_proposed_service_argument |-> arguments,
     admin_event_proposed_node |-> nodes,
     admin_event_proposed_node_endpoint |-> endpoints,
     admin_event_vote_record |-> votes]
ServiceTables(n) ==
    {SeqOf({ServiceRow(k[1], k[2]) : k \in K}) : K \in SubsetsUpTo(EventIds \X ServiceIds, n)}
ArgTables(services, n) ==
    SeqsUpTo({ArgRow(r.event_id, r.service_id, key) : r \in Range(services), key \in ArgKeys}, n)
NodeTables(n) ==
    {SeqOf({NodeRow(k[1], k[2]) : k \in K}) : K \in SubsetsUpTo(EventIds \X NodeIds, n)}
EndpointTables(nodes, n) ==
    SeqsUpTo({EndpointRow(r.event_id, r.node_id, url) : r \in Range(nodes),
                                                        url \in EndpointUrls}, n)
ChildStores(n) ==
    UNION {UNION {UNION {UNION {UNION {
        {ChildStore(complete, S, A, N, P, V) : complete \in SUBSET EventIds}
        : V \in VoteTables(n - Len(S) - Len(A) - Len(N) - Len(P), EventIds, NodeIds,
                         {"Accept"})}
        : P \in EndpointTables(N, n - Len(S) - Len(A) - Len(N))}
        : N \in NodeTables(n - Len(S) - Len(A))}
        : A \in ArgTables(S, n - Len(S))}
        : S \in ServiceTables(n)}

ChildStoreChosen(n) ==
    \E S \in ServiceTables(n) :
    \E A \in ArgTables(S, n - Len(S)) :
    \E N \in NodeTables(n - Len(S) - Len(A)) :
    \E P \in EndpointTables(N, n - Len(S) - Len(A) - Len(N)) :
    \E V \in VoteTables(n - Len(S) - Len(A) - Len(N) - Len(P), EventIds, NodeIds,
                        {"Accept"}) :
    \E complete \in SUBSET EventIds :
        store = ChildStore(complete, S, A, N, P, V)

\* The stores of ChildStores(n) whose child rows all belong to a stored event.
StoredEventIds(s) == {e.id : e \in s.admin_service_event}
ChildrenOfStoredEvents(s) ==
    \A table \in {s.admin_event_proposed_service, s.admin_event_proposed_service_argument,
                   s.admin_event_proposed_node, s.admin_event_proposed_node_endpoint,
                   s.admin_event_vote_record} :
        \A i \in 1..Len(table) : table[i].event_id \in StoredEventIds(s)
ConcurrentStores == {s \in ChildStores(MaxConcurrentRows) : ChildrenOfStoredEvents(s)}

\* The seeded store of the round trip: one event with two services, the
\* first with two arguments, one node with three endpoints and two votes.
RoundTripStore ==
    ChildStore({1},
               <<ServiceRow(1, "a"), ServiceRow(1, "b")>>,
               <<ArgRow(1, "a", "k1"), ArgRow(1, "a", "k2")>>,
               <<NodeRow(1, "n1")>>,
               <<EndpointRow(1, "n1", "tcp://x"), EndpointRow(1, "n1", "tcp://y"),
                 EndpointRow(1, "n1", "tcp://x")>>,
               <<VoteRow(1, "n1", "Accept"), VoteRow(1, "n2", "Accept")>>)

(***************************************************************************)
(* The transaction (line 64) and the steps of list_events.                 *)
(***************************************************************************)
Isolations == {"snapshot", "read_committed"}
NoRows == [events |-> {}, services |-> <<>>, nodes |-> <<>>, votes |-> <<>>]

\* The store a query of the open transaction reads.
View == IF isolation = "snapshot" THEN snap ELSE store

InitCall ==
    /\ pc = "idle"
    /\ event_ids = <<>>
    /\ snap = store
    /\ seen = {}
    /\ loaded = NoRows
    /\ events_map = EmptyMap
    /\ built_proposed_services = EmptyMap
    /\ built_proposed_nodes = EmptyMap
    /\ vote_records = EmptyMap
    /\ result = None
    /\ previous = None

Finish(r) ==
    /\ pc' = "done"
    /\ result' = r

\* list_events is called and the transaction opens.
Begin ==
    /\ pc = "idle"
    /\ \E ids \in Requests : event_ids' = ids
    /\ pc' = "events"
    /\ snap' = store
    /\ seen' = {store}
    /\ UNCHANGED <<store, isolation, loaded, events_map, built_proposed_services,
                   built_proposed_nodes, vote_records, result, previous>>

\* Lines 66-143.
QueryEvents ==
    /\ pc = "events"
    /\ LET event_models == LoadEventModels(View, event_ids)
           collected == CollectEventsMap(event_models)
       IN  /\ loaded' = [loaded EXCEPT !.events = event_models]
           /\ IF collected.ok
              THEN /\ events_map' = collected.val
                   /\ pc' = "services"
                   /\ UNCHANGED result
              ELSE /\ Finish(Err)
                   /\ UNCHANGED events_map
    /\ UNCHANGED <<store, isolation, event_ids, snap, seen, built_proposed_services,
                   built_proposed_nodes, vote_records, previous>>

\* Lines 147-216.
QueryServices ==
    /\ pc = "services"
    /\ LET rows == LoadServiceRows(View, event_ids)
           folded == FoldServiceRows([arguments_map |-> EmptyMap,
                                      proposed_services |-> EmptyMap], rows)
       IN  /\ loaded' = [loaded EXCEPT !.services = rows]
           /\ \E order \in Perms(DOMAIN folded.proposed_services) :
                LET built == BuildProposedServices(Ok(EmptyMap), order,
                                                   folded.proposed_services,
                                                   folded.arguments_map)
                IN  IF built.ok
                    THEN /\ built_proposed_services' = built.val
                         /\ pc' = "nodes"
                         /\ UNCHANGED result
                    ELSE /\ Finish(Err)
                         /\ UNCHANGED built_proposed_services
    /\ UNCHANGED <<store, isolation, event_ids, snap, seen, events_map,
                   built_proposed_nodes, vote_records, previous>>

\* Lines 218-271.
QueryNodes ==
    /\ pc = "nodes"
    /\ LET rows == LoadNodeRows(View, event_ids)
           proposed_nodes == FoldNodeRows(EmptyMap, rows)
       IN  /\ loaded' = [loaded EXCEPT !.nodes = rows]
           /\ \E order \in Perms(DOMAIN proposed_nodes) :
                LET built == BuildProposedNodes(Ok(EmptyMap), order, proposed_nodes)
                IN  IF built.ok
                    THEN /\ built_proposed_nodes' = built.val
                         /\ pc' = "votes"
                         /\ UNCHANGED result
                    ELSE /\ Finish(Err)
                         /\ UNCHANGED built_proposed_nodes
    /\ UNCHANGED <<store, isolation, event_ids, snap, seen, events_map,
                   built_proposed_services, vote_records, previous>>

\* Lines 274-292.
QueryVotes ==
    /\ pc = "votes"
    /\ LET rows == LoadVotes(View, event_ids)
           votes == CollectVotes(Ok(EmptyMap), rows)
       IN  /\ loaded' = [loaded EXCEPT !.votes = rows]
           /\ IF votes.ok
              THEN /\ vote_records' = votes.val
                   /\ pc' = "assemble"
                   /\ UNCHANGED result
              ELSE /\ Finish(Err)
                   /\ UNCHANGED vote_records
    /\ UNCHANGED <<store, isolation, event_ids, snap, seen, events_map,
                   built_proposed_services, built_proposed_nodes, previous>>

\* Lines 294-320.
Assemble ==
    /\ pc = "assemble"
    /\ \E order \in Perms(DOMAIN events_map) :
         LET events == AssembleEvents(Ok(<<>>), order, events_map,
                                      built_proposed_services, built_proposed_nodes,
                                      vote_records)
         IN  IF events.ok
             THEN Finish(Ok(SortByKey(events.val)))
             ELSE Finish(Err)
    /\ UNCHANGED <<store, isolation, event_ids, snap, seen, loaded, events_map,
                   built_proposed_services, built_proposed_nodes, vote_records,
                   previous>>

\* The caller takes the result; nothing of the call is kept.
Return ==
    /\ pc = "done"
    /\ pc' = "idle"
    /\ event_ids' = <<>>
    /\ snap' = store
    /\ seen' = {}
    /\ loaded' = NoRows
    /\ events_map' = EmptyMap
    /\ built_proposed_services' = EmptyMap
    /\ built_proposed_nodes' = EmptyMap
    /\ vote_records' = EmptyMap
    /\ result' = None
    /\ previous' = None
    /\ UNCHANGED <<store, isolation>>

\* The caller keeps the result and calls again with the same event_ids.
Repeat ==
    /\ pc = "done"
    /\ previous = None
    /\ previous' = Some(result)
    /\ pc' = "events"
    /\ snap' = store
    /\ seen' = {store}
    /\ loaded' = NoRows
    /\ events_map' = EmptyMap
    /\ built_proposed_services' = EmptyMap
    /\ built_proposed_nodes' = EmptyMap
    /\ vote_records' = EmptyMap
    /\ result' = None
    /\ UNCHANGED <<store, isolation, event_ids>>

\* Another connection commits a transaction that changes the store.
CommitWrite ==
    /\ pc # "idle" => Cardinality(seen) <= MaxWrites
    /\ \E s \in ConcurrentStores :
         /\ s # store
         /\ store' = s
    /\ seen' = IF pc \in {"idle", "done"} THEN seen ELSE seen \cup {store'}
    /\ snap' = IF pc = "idle" THEN store' ELSE snap
    /\ UNCHANGED <<isolation, pc, event_ids, loaded, events_map,
                   built_proposed_services, built_proposed_nodes, vote_records,
                   result, previous>>

Call == Begin \/ QueryEvents \/ QueryServices \/ QueryNodes \/ QueryVotes \/ Assemble

Init ==
    /\ DecodeStoreChosen
    /\ isolation = "snapshot"
    /\ InitCall
Next == Call \/ Return
Spec == Init /\ [][Next]_vars

InitChildren ==
    /\ ChildStoreChosen(MaxChildRows) \/ store = RoundTripStore
    /\ isolation = "snapshot"
    /\ InitCall
SpecChildren == InitChildren /\ [][Next]_vars

InitRepeat ==
    /\ ChildStoreChosen(MaxRepeatRows) \/ store = RoundTripStore
    /\ isolation = "snapshot"
    /\ InitCall
NextRepeat == Call \/ Return \/ Repeat
SpecRepeat == InitRepeat /\ [][NextRepeat]_vars

InitConcurrent ==
    /\ store \in ConcurrentStores
    /\ isolation \in Isolations
    /\ InitCall
NextConcurrent == Call \/ Return \/ CommitWrite
SpecConcurrent == InitConcurrent /\ [][NextConcurrent]_vars

(***************************************************************************)
(* Properties of a finished call, stated on the rows of the store.         *)
(***************************************************************************)
Done == pc = "done"
Succeeded == pc = "done" /\ result.ok
Requested == Range(event_ids)
Returned == {result.val[i] : i \in 1..Len(result.val)}
ReturnedIds == {result.val[i].event_id : i \in 1..Len(result.val)}

\* The ids with an event row, a circuit proposal row and a proposed circuit row.
CompleteIds(s) ==
    {e.id : e \in s.admin_service_event}
        \cap {p.event_id : p \in s.admin_event_circuit_proposal}
        \cap {c.event_id : c \in s.admin_event_proposed_circuit}

\* A row fetched for the requested ids that cannot be decoded or finalized:
\* a one-to-one row of a complete requested event, or a vote row of a
\* requested id.
BadEventRow(s, ids) ==
    \E e \in s.admin_service_event :
        /\ e.id \in ids \cap CompleteIds(s)
        /\ ~AdminServiceEventTryFrom(e, "proposal").ok
BadProposalRow(s, ids) ==
    \E p \in s.admin_event_circuit_proposal :
        /\ p.event_id \in ids \cap CompleteIds(s)
        /\ ~ProposalTypeTryFrom(p.proposal_type).ok
BadCircuitRow(s, ids) ==
    \E c \in s.admin_event_proposed_circuit :
        /\ c.event_id \in ids \cap CompleteIds(s)
        /\ \/ ~AuthorizationTypeTryFrom(c.authorization_type).ok
           \/ ~PersistenceTypeTryFrom(c.persistence).ok
           \/ ~DurabilityTypeTryFrom(c.durability).ok
           \/ ~RouteTypeTryFrom(c.routes).ok
           \/ c.circuit_id \notin ValidCircuitIds
BadVoteRow(s, ids) ==
    \E i \in 1..Len(s.admin_event_vote_record) :
        /\ s.admin_event_vote_record[i].event_id \in ids
        /\ ~VoteRecordTryFrom(s.admin_event_vote_record[i]).ok
BadRowFetched(s, ids) ==
    BadEventRow(s, ids) \/ BadProposalRow(s, ids) \/ BadCircuitRow(s, ids)
        \/ BadVoteRow(s, ids)

\* C1 as stated, for stores whose complete requested events are well-formed:
\* the call returns exactly the requested events that have their three rows,
\* and a requested id that lacks one of them never makes it return an error.
C1_IncompleteNeverErrors ==
    (Done /\ ~BadRowFetched(store, Requested \cap CompleteIds(store)))
        => /\ result.ok
           /\ ReturnedIds = Requested \cap CompleteIds(store)

\* C1, amended: when no row fetched for the requested ids fails to decode or
\* to finalize, the call succeeds and returns exactly one event for each
\* requested id that has an event row, a circuit proposal row and a proposed
\* circuit row; the other requested ids are omitted. A call that succeeds
\* returns exactly those events in every case.
C1_Completeness ==
    Done =>
        /\ ~BadRowFetched(store, Requested) => result.ok
        /\ result.ok =>
              /\ ReturnedIds = Requested \cap CompleteIds(store)
              /\ Len(result.val) = Cardinality(Requested \cap CompleteIds(store))

\* A call that asked for a complete event and for an event without its
\* proposed circuit row, and returned the complete one alone.
C1_Witness ==
    /\ Succeeded
    /\ Requested = {1, 2}
    /\ CompleteIds(store) = {2}
    /\ 1 \in {e.id : e \in store.admin_service_event}
    /\ ReturnedIds = {2}

\* C2: a successful result is strictly ascending by event_id, so no two of
\* its events share an event_id, whatever the order and the repetitions of
\* the requested ids.
C2_StrictlyAscending ==
    Succeeded =>
        \A i, j \in 1..Len(result.val) :
            i < j => result.val[i].event_id < result.val[j].event_id

\* Two events returned for the ids <<2, 1>>.
C2_Witness ==
    /\ Succeeded
    /\ event_ids = <<2, 1>>
    /\ Len(result.val) = 2

\* C3: when a row fetched for the requested ids fails to decode or a
\* finalize fails, the call returns the error and no event, also when
\* another requested event is well-formed.
C3_AtomicFailure ==
    (Done /\ BadRowFetched(store, Requested)) => result = Err

\* A failed call that asked for two complete events, one of them with all
\* its rows well-formed.
C3_Witness ==
    /\ Done
    /\ result = Err
    /\ Requested = {1, 2}
    /\ CompleteIds(store) = {1, 2}
    /\ ~BadRowFetched(store, {1})
    /\ BadCircuitRow(store, {2})

\* C8: a call whose requested ids have no event row, the empty request
\* included, returns an empty sequence, not an error, and the store is as
\* it was when the call began.
C8_UnknownIdsEmpty ==
    (Done /\ Requested \cap {e.id : e \in store.admin_service_event} = {})
        => /\ result = Ok(<<>>)
           /\ store = snap

\* A call for the unknown id 2 against a store that holds event 1.
C8_Witness ==
    /\ Done
    /\ event_ids = <<2>>
    /\ CompleteIds(store) = {1}
    /\ {e.id : e \in store.admin_service_event} = {1}
    /\ result = Ok(<<>>)

\* The arguments stored for a service and the endpoints stored for a node, in
\* the order of their rows.
StoredArgs(s, e, service_id) ==
    LET rows == SelectSeq(s.admin_event_proposed_service_argument,
                          LAMBDA a : a.event_id = e /\ a.service_id = service_id)
    IN  [i \in 1..Len(rows) |-> <<rows[i].key, rows[i].value>>]
StoredEndpoints(s, e, node_id) ==
    LET rows == SelectSeq(s.admin_event_proposed_node_endpoint,
                          LAMBDA q : q.event_id = e /\ q.node_id = node_id)
    IN  [i \in 1..Len(rows) |-> rows[i].endpoint]
RowsOfEvent(table, e) == SelectSeq(table, LAMBDA r : r.event_id = e)
Roster(ev) == ev.proposal.circuit.roster
Members(ev) == ev.proposal.circuit.members
Votes(ev) == ev.proposal.votes

\* C5: the argument list of every returned service holds one entry for each
\* argument row stored for its (event_id, service_id), in the order of the
\* rows, duplicates included.
C5_ArgumentsGrouped ==
    Succeeded =>
        \A ev \in Returned : \A j \in 1..Len(Roster(ev)) :
            Roster(ev)[j].arguments =
                StoredArgs(store, ev.event_id, Roster(ev)[j].service_id)

\* A returned service with two equal arguments.
C5_Witness ==
    /\ Succeeded
    /\ \E ev \in Returned : \E j \in 1..Len(Roster(ev)) :
          /\ Len(Roster(ev)[j].arguments) = 2
          /\ Roster(ev)[j].arguments[1] = Roster(ev)[j].arguments[2]

\* C6: a stored node of a returned event with K >= 1 endpoint rows is one
\* ProposedNode of the membership, whose endpoints are those K, in the order
\* of the rows.
C6_EndpointsAccumulated ==
    Succeeded =>
        \A ev \in Returned :
            LET nodes == RowsOfEvent(store.admin_event_proposed_node, ev.event_id)
            IN  \A i \in 1..Len(nodes) :
                    LET stored == StoredEndpoints(store, ev.event_id, nodes[i].node_id)
                        built == {j \in 1..Len(Members(ev)) :
                                     Members(ev)[j].node_id = nodes[i].node_id}
                    IN  stored # <<>> =>
                            /\ Cardinality(built) = 1
                            /\ \A j \in built : Members(ev)[j].endpoints = stored

\* A returned node with the endpoints of two rows, in their order.
C6_Witness ==
    /\ Succeeded
    /\ \E ev \in Returned : \E j \in 1..Len(Members(ev)) :
          Members(ev)[j].endpoints = <<"tcp://y", "tcp://x">>

\* C7 as stated: a second call with the same event_ids against the unchanged
\* store returns the same result, the order of the services of each roster
\* and of the nodes of each membership included.
C7_SameResult ==
    (Done /\ previous # None) => result = previous[1]

\* A result with each roster and each membership taken as a set.
Unordered(r) ==
    IF ~r.ok THEN <<>>
    ELSE [i \in 1..Len(r.val) |->
            [event_id |-> r.val[i].event_id,
             event_type |-> r.val[i].event_type,
             proposal |-> [r.val[i].proposal EXCEPT !.circuit = <<>>],
             circuit |-> [r.val[i].proposal.circuit EXCEPT !.roster = <<>>,
                                                           !.members = <<>>],
             roster |-> Range(Roster(r.val[i])),
             roster_len |-> Len(Roster(r.val[i])),
             members |-> Range(Members(r.val[i])),
             members_len |-> Len(Members(r.val[i]))]]

\* C7, amended: a second call with the same event_ids against the unchanged
\* store succeeds or fails as the first did and returns the same events in
\* the same order, with the same content up to the order of the services in
\* each roster and of the nodes in each membership; the arguments, endpoints
\* and votes are in the same order.
C7_SameUpToRosterOrder ==
    (Done /\ previous # None) =>
        /\ result.ok = previous[1].ok
        /\ Unordered(result) = Unordered(previous[1])

\* A second call that returned the two services of an event in another
\* order than the first.
C7_Witness ==
    /\ Succeeded
    /\ previous # None
    /\ result # previous[1]
    /\ \E ev \in Returned : Len(Roster(ev)) = 2

\* C9: a returned event has one ProposedService for each service row of the
\* event (a service without argument rows has no arguments), one
\* ProposedNode for each of its node rows that has endpoint rows, and one
\* VoteRecord for each of its vote rows.
C9_RoundTripCounts ==
    Succeeded =>
        \A ev \in Returned :
            LET services == RowsOfEvent(store.admin_event_proposed_service, ev.event_id)
                nodes == RowsOfEvent(store.admin_event_proposed_node, ev.event_id)
                votes == RowsOfEvent(store.admin_event_vote_record, ev.event_id)
                with_endpoints ==
                    {i \in 1..Len(nodes) :
                        StoredEndpoints(store, ev.event_id, nodes[i].node_id) # <<>>}
            IN  /\ Len(Roster(ev)) = Len(services)
                /\ \A i \in 1..Len(services) :
                      \E j \in 1..Len(Roster(ev)) :
                          /\ Roster(ev)[j].service_id = services[i].service_id
                          /\ Len(Roster(ev)[j].arguments) =
                                 Len(StoredArgs(store, ev.event_id, services[i].service_id))
                /\ Len(Members(ev)) = Cardinality(with_endpoints)
                /\ Len(Votes(ev)) = Len(votes)

\* The round trip of the seeded event: two services, one with two arguments
\* and one with none, one node with three endpoints, two votes.
C9_Witness ==
    /\ Succeeded
    /\ \E ev \in Returned :
          /\ Len(Roster(ev)) = 2
          /\ \E j, k \in 1..2 : /\ Len(Roster(ev)[j].arguments) = 2
                                /\ Roster(ev)[k].arguments = <<>>
          /\ Len(Members(ev)) = 1
          /\ Len(Members(ev)[1].endpoints) = 3
          /\ Len(Votes(ev)) = 2

\* C10: every service, argument list, node, endpoint list and vote of a
\* returned event comes from rows that carry the event's own event_id, and
\* only events with their own three rows are returned.
C10_KeyIsolation ==
    Succeeded =>
        /\ ReturnedIds \subseteq CompleteIds(store)
        /\ \A ev \in Returned :
              /\ \A j \in 1..Len(Roster(ev)) :
                    /\ \E r \in Range(store.admin_event_proposed_service) :
                          /\ r.event_id = ev.event_id
                          /\ r.service_id = Roster(ev)[j].service_id
                          /\ r.service_type = Roster(ev)[j].service_type
                          /\ r.node_id = Roster(ev)[j].node_id
                    /\ Range(Roster(ev)[j].arguments) \subseteq
                           Range(StoredArgs(store, ev.event_id, Roster(ev)[j].service_id))
              /\ \A j \in 1..Len(Members(ev)) :
                    /\ \E r \in Range(store.admin_event_proposed_node) :
                          /\ r.event_id = ev.event_id
                          /\ r.node_id = Members(ev)[j].node_id
                    /\ Range(Members(ev)[j].endpoints) \subseteq
                           Range(StoredEndpoints(store, ev.event_id, Members(ev)[j].node_id))
              /\ \A j \in 1..Len(Votes(ev)) :
                    \E v \in Range(store.admin_event_vote_record) :
                          /\ v.event_id = ev.event_id
                          /\ v.voter_node_id = Votes(ev)[j].voter_node_id
                          /\ v.vote = Votes(ev)[j].vote

\* Two returned events with a service "a" each, of which only the first has
\* an argument.
C10_Witness ==
    /\ Succeeded
    /\ Len(result.val) = 2
    /\ \E j \in 1..Len(Roster(result.val[1])) :
          /\ Roster(result.val[1])[j].service_id = "a"
          /\ Roster(result.val[1])[j].arguments # <<>>
    /\ \E j \in 1..Len(Roster(result.val[2])) :
          /\ Roster(result.val[2])[j].service_id = "a"
          /\ Roster(result.val[2])[j].arguments = <<>>

\* The services, nodes and votes that store s holds for event e, as a call
\* that reads s alone builds them.
ServicesIn(s, e) ==
    {[service_id |-> r.service_id, service_type |-> r.service_type,
      node_id |-> r.node_id, arguments |-> StoredArgs(s, e, r.service_id)]
        : r \in Range(RowsOfEvent(s.admin_event_proposed_service, e))}
NodesIn(s, e) ==
    {[node_id |-> r.node_id, endpoints |-> StoredEndpoints(s, e, r.node_id)]
        : r \in {q \in Range(RowsOfEvent(s.admin_event_proposed_node, e)) :
                    StoredEndpoints(s, e, q.node_id) # <<>>}}
VotesIn(s, e) ==
    LET rows == RowsOfEvent(s.admin_event_vote_record, e)
    IN  [i \in 1..Len(rows) |-> [public_key |-> rows[i].public_key,
                                 vote |-> rows[i].vote,
                                 voter_node_id |-> rows[i].voter_node_id]]

\* C4: the events of a successful call are those of one state that the
\* store was in during the call: each has its three rows in that state, and
\* its services, nodes and votes are the ones of that same state.
C4_OneSnapshot ==
    Succeeded =>
        \E s \in seen :
            \A ev \in Returned :
                /\ ev.event_id \in CompleteIds(s)
                /\ Range(Roster(ev)) = ServicesIn(s, ev.event_id)
                /\ Range(Members(ev)) = NodesIn(s, ev.event_id)
                /\ Votes(ev) = VotesIn(s, ev.event_id)

====
